---- MODULE Spec2Model ----
(***************************************************************************)
(* Webhook ingestion service: HMAC gate (app/hmac_validation.py), the      *)
(* request pipeline of POST /webhook (app/routes.py), the payload shape    *)
(* (app/models.py) and the SQLite message store (app/storage.py).          *)
(*                                                                         *)
(* Strings that the code indexes or compares character by character (the   *)
(* X-Signature header, hex digests, encoded raw_data) are sequences of     *)
(* one-character strings.  A request body is the parsed view of its bytes: *)
(* whether the bytes are UTF-8, whether the text is JSON, and the JSON     *)
(* value; Utf8Decode and JsonLoads fail exactly where bytes.decode and     *)
(* json.loads raise.                                                       *)
(***************************************************************************)
EXTENDS Integers, Sequences, FiniteSets, TLC

(* ------------------------------ bounds -------------------------------- *)

\* Requests received in one behaviour.
MaxRequests == 2
\* Requests in flight at the same time (request handlers / worker processes).
NumWorkers == 2
\* Largest reading of the server clock (datetime.utcnow()).
MaxClock == 2
\* Hex characters of a digest (64 for SHA-256; the model keeps the encoding, not the width).
HexLen == 2

Workers == 1..NumWorkers

\* The pages a caller of GET /messages asks for, and the rows of a store that
\* is given rather than built by requests.
MaxPage == 4
MaxStored == 3

(* ------------------------- request bodies ------------------------------ *)

\* raw_data documents are JSON objects with string keys and integer values;
\* NoDoc is the empty one.
NoDoc == <<>>

FieldNames == {"message_id", "timestamp", "source", "raw_data"}

\* A JSON object body: the keys it has and their values.
ObjectBody(has, id, ts, src, rawKind, doc) ==
    [ utf8 |-> TRUE, syntax |-> "json", top |-> "object", has |-> has,
      message_id |-> id, timestamp |-> ts, source |-> src,
      raw_kind |-> rawKind, raw_doc |-> doc ]

\* A body that is no JSON object: invalid UTF-8, invalid JSON text, or a JSON
\* array / string / number / null at the top level.
OtherBody(utf8, syntax, top) ==
    [ utf8 |-> utf8, syntax |-> syntax, top |-> top, has |-> {},
      message_id |-> "", timestamp |-> "", source |-> "",
      raw_kind |-> "null", raw_doc |-> NoDoc ]

FullBody(id, ts, src, doc) == ObjectBody(FieldNames, id, ts, src, "object", doc)

\* The request bodies of the model, in a fixed order: a body's position is the
\* number its bytes stand for when they are hashed.
AllBodies ==
    << FullBody("m1", "2024-01-01T00:00:00Z", "A", [k \in {"key"} |-> 1]),
       FullBody("m1", "2024-01-02T00:00:00Z", "B", NoDoc),
       FullBody("m2", "2024-01-02T00:00:00Z", "B", [k \in {"key"} |-> 2]),
       ObjectBody(FieldNames \ {"message_id"}, "", "2024-01-01T00:00:00Z", "A", "object", NoDoc),
       ObjectBody(FieldNames \ {"timestamp"}, "m1", "", "A", "object", NoDoc),
       ObjectBody(FieldNames \ {"source"}, "m1", "2024-01-01T00:00:00Z", "", "object", NoDoc),
       ObjectBody(FieldNames \ {"raw_data"}, "m1", "2024-01-01T00:00:00Z", "A", "null", NoDoc),
       ObjectBody(FieldNames, "m1", "2024-01-01T00:00:00Z", "A", "number", NoDoc),
       OtherBody(TRUE, "json", "array"),
       OtherBody(TRUE, "json", "number"),
       OtherBody(TRUE, "garbage", "null"),
       OtherBody(FALSE, "garbage", "null") >>

Bodies == { AllBodies[i] : i \in 1..Len(AllBodies) }

\* The bodies that are JSON objects of the required shape.
ValidBodies == { b \in Bodies : b.top = "object" /\ b.has = FieldNames /\ b.raw_kind = "object" }

BodyCode(b) == CHOOSE i \in 1..Len(AllBodies) : AllBodies[i] = b

(* ------------------------ characters and strings ----------------------- *)

LowerHex == << "0","1","2","3","4","5","6","7","8","9","a","b","c","d","e","f" >>
UpperHex == << "0","1","2","3","4","5","6","7","8","9","A","B","C","D","E","F" >>

\* One character outside ASCII (a header byte 0xE9 reaches the handler as U+00E9).
NonAsciiChar == "U+00E9"

AsciiChars == { LowerHex[i] : i \in 1..16 } \cup { UpperHex[i] : i \in 1..16 } \cup {"z"}

IsAscii(str) == \A i \in 1..Len(str) : str[i] \in AsciiChars

ToUpper(str) ==
    [ i \in 1..Len(str) |->
        IF \E d \in 1..16 : LowerHex[d] = str[i]
        THEN UpperHex[CHOOSE d \in 1..16 : LowerHex[d] = str[i]]
        ELSE str[i] ]

RECURSIVE Pow16(_)
Pow16(n) == IF n = 0 THEN 1 ELSE 16 * Pow16(n - 1)

\* bytes.hex(): n as `len` lowercase hexadecimal characters, most significant first.
RECURSIVE HexOf(_, _)
HexOf(n, len) ==
    IF len = 0 THEN << >>
    ELSE Append(HexOf(n \div 16, len - 1), LowerHex[(n % 16) + 1])

(* ------------------------------ the secret ----------------------------- *)

\* os.getenv("WEBHOOK_SECRET"): None when the variable is unset.
Unset == "<unset>"
TestSecret == "test_secret_key_12345"
WrongSecret == "not_the_secret"
EnvValues == { Unset, "", TestSecret }

\* secret.encode("utf-8") as the number the key bytes stand for.
KeyCode(secret) ==
    CASE secret = TestSecret -> 91
      [] secret = WrongSecret -> 58
      [] OTHER -> 0

\* The keyed digest as a number of HexLen hex digits.  For one key it maps
\* different bodies to different digests, and for one body different keys to
\* different digests (131 and 37 are odd, so both maps are one-to-one modulo
\* a power of two): the model's digest has no collisions within its bounds,
\* which is what HMAC-SHA256 is relied on for.
HmacDigest(secret, body) ==
    (KeyCode(secret) * 131 + BodyCode(body) * 37 + 11) % Pow16(HexLen)

\* hmac.new(secret.encode("utf-8"), body, hashlib.sha256).hexdigest()
HexDigest(secret, body) == HexOf(HmacDigest(secret, body), HexLen)

\* hmac.compare_digest on two str: TypeError unless both are ASCII only.
CompareDigest(a, b) ==
    IF ~IsAscii(a) \/ ~IsAscii(b) THEN "TypeError"
    ELSE IF a = b THEN "True" ELSE "False"

(* ------------------------------- headers ------------------------------- *)

\* request.headers.get("X-Signature"): None when the header is absent.
NoHeader == [ present |-> FALSE, value |-> << >> ]
Header(str) == [ present |-> TRUE, value |-> str ]

\* The body next to b in AllBodies: what the client signed when the body was
\* altered afterwards.
OtherBodyThan(b) == AllBodies[(BodyCode(b) % Len(AllBodies)) + 1]

\* The X-Signature headers of a client that holds the secret: none, the
\* digest of the body it sends, or the digest of the body before it was altered.
SignedHeadersFor(b) ==
    { NoHeader,
      Header(HexDigest(TestSecret, b)),
      Header(HexDigest(TestSecret, OtherBodyThan(b))) }

\* Every X-Signature header of the model for body b: those above, an empty
\* value, a digest under another key, the digest in upper case, the digest cut
\* short, characters that are no hex digits, characters outside ASCII.
HeadersFor(b) ==
    SignedHeadersFor(b) \cup
    { Header(<< >>),
      Header(HexDigest(WrongSecret, b)),
      Header(ToUpper(HexDigest(TestSecret, b))),
      Header(SubSeq(HexDigest(TestSecret, b), 1, HexLen - 1)),
      Header([ i \in 1..HexLen |-> "z" ]),
      Header([ i \in 1..HexLen |-> NonAsciiChar ]) }

\* The requests (header, body) of clients that hold the secret: a body of the
\* required shape with each of their headers, any other body validly signed.
SignedRequests ==
    UNION { { [ header |-> h, body |-> b ] : h \in SignedHeadersFor(b) } : b \in ValidBodies }
    \cup { [ header |-> Header(HexDigest(TestSecret, b)), body |-> b ] : b \in Bodies \ ValidBodies }

\* Every request (header, body) of the model.
Requests ==
    UNION { { [ header |-> h, body |-> b ] : h \in HeadersFor(b) } : b \in Bodies }

(* ------------------------------ responses ------------------------------ *)

NoResponse == [ status |-> 0, detail |-> "", message_id |-> "", duplicate |-> FALSE ]

\* raise HTTPException(status_code=status, detail=detail)
HTTPException(status, detail) ==
    [ status |-> status, detail |-> detail, message_id |-> "", duplicate |-> FALSE ]

\* Mutant: the duplicate flag is the insert's result, not its negation.
Created_Inverted(id, inserted) ==
    [ status |-> 201, detail |-> "Webhook received", message_id |-> id,
      duplicate |-> inserted ]

\* return {"message": "Webhook received", "message_id": ..., "duplicate": not inserted}
\* under status_code=201.
Created(id, inserted) ==
    [ status |-> 201, detail |-> "Webhook received", message_id |-> id,
      duplicate |-> ~inserted ]

\* The outer `except Exception` of webhook.
InternalServerError == HTTPException(500, "Internal server error")

(* --------------------------- authentication ---------------------------- *)

\* Mutant: only an unset variable raises (`if secret is None`).
get_webhook_secret_NoneOnly(env) ==
    IF env = Unset
    THEN [ raised |-> "ValueError", secret |-> "" ]
    ELSE [ raised |-> "none", secret |-> env ]

\* get_webhook_secret: ValueError when the variable is unset or empty.
get_webhook_secret(env) ==
    IF env = Unset \/ env = ""
    THEN [ raised |-> "ValueError", secret |-> "" ]
    ELSE [ raised |-> "none", secret |-> env ]

\* Mutant: the header is compared with the digest's prefix of its own length.
SignatureCheck_Prefix(header_value, expected_signature) ==
    CompareDigest(header_value,
                  SubSeq(expected_signature, 1, Len(header_value)))

\* The comparison of validate_hmac_signature.
SignatureCheck(header_value, expected_signature) ==
    CompareDigest(header_value, expected_signature)

\* Mutant: the check for a missing header is left out.
HeaderMissing_Unchecked(header) == FALSE

\* `if not signature_header`: the header is absent or its value is empty.
HeaderMissing(header) == ~header.present \/ header.value = << >>

\* validate_hmac_signature(request): what it raises (an HTTPException carries
\* `response`), and whether `await request.body()` was reached.
validate_hmac_signature(header, body, env) ==
    IF HeaderMissing(header)
    THEN [ raised |-> "HTTPException", body_read |-> FALSE,
           response |-> HTTPException(401, "Missing X-Signature header") ]
    ELSE LET got == get_webhook_secret(env) IN
         IF got.raised = "ValueError"
         THEN [ raised |-> "HTTPException", body_read |-> TRUE,
                response |-> HTTPException(500, "Webhook secret not configured") ]
         ELSE LET cmp == SignatureCheck(header.value, HexDigest(got.secret, body)) IN
              CASE cmp = "TypeError" ->
                     [ raised |-> "TypeError", body_read |-> TRUE, response |-> NoResponse ]
                [] cmp = "False" ->
                     [ raised |-> "HTTPException", body_read |-> TRUE,
                       response |-> HTTPException(401, "Invalid signature") ]
                [] OTHER ->
                     [ raised |-> "none", body_read |-> TRUE, response |-> NoResponse ]

(* ------------------------ parsing and validation ----------------------- *)

\* json.loads(body_bytes.decode("utf-8")): the exception it raises, if any.
ParseBody(body) ==
    IF ~body.utf8 THEN "UnicodeDecodeError"
    ELSE IF body.syntax # "json" THEN "JSONDecodeError"
    ELSE "none"

\* `except json.JSONDecodeError` of webhook: the exceptions of the parse step
\* that are answered with 400.
ParseErrorCaught(exc) == exc = "JSONDecodeError"

\* Mutant: the payload is used as parsed, without the model class.
WebhookPayload_Unchecked(body) == "none"

\* WebhookPayload(**payload): TypeError when payload is no mapping,
\* ValidationError when a required field is missing or raw_data is no dict.
WebhookPayload(body) ==
    IF body.top # "object" THEN "TypeError"
    ELSE IF body.has # FieldNames \/ body.raw_kind # "object" THEN "ValidationError"
    ELSE "none"

\* The handler of `except Exception as e` around WebhookPayload(**payload):
\* payload.get("source", "unknown") raises AttributeError unless payload is a dict.
ValidationHandler(body) ==
    IF body.top # "object" THEN "AttributeError" ELSE "none"

(* ------------------------------ the store ------------------------------ *)

\* json.dumps of a raw_data document, as a sequence of tokens.
RECURSIVE DumpItems(_, _)
DumpItems(doc, keys) ==
    IF keys = {} THEN << >>
    ELSE LET k == CHOOSE x \in keys : TRUE
             rest == DumpItems(doc, keys \ {k})
         IN  << "\"", k, "\"", ":", " ", LowerHex[doc[k] + 1] >>
             \o (IF rest = << >> THEN << >> ELSE << ",", " " >> \o rest)

JsonDumps(doc) == << "{" >> \o DumpItems(doc, DOMAIN doc) \o << "}" >>

Row(id, ts, src, doc, created) ==
    [ message_id |-> id, timestamp |-> ts, source |-> src,
      raw_data |-> JsonDumps(doc), created_at |-> created ]

\* Mutant: the table has no primary key.
PrimaryKeyViolation_Never(rows, id) == FALSE

\* message_id TEXT PRIMARY KEY: whether inserting `id` violates the constraint.
PrimaryKeyViolation(rows, id) ==
    \E i \in 1..Len(rows) : rows[i].message_id = id

\* Mutant: writers are not serialised (a check in the application followed by
\* a separate write).
WriteLockFree_Always(lock) == TRUE

\* The INSERT statement needs SQLite's write lock: it proceeds only while no
\* other connection holds an uncommitted write.
WriteLockFree(lock) == lock = 0

(* ------------------------- strings of the store ----------------------- *)

\* The characters of timestamps, in the order of their byte values.
Alphabet == << "-", "0", "1", "2", "3", "4", "5", "6", "7", "8", "9", ":", "T", "Z" >>

CharCode(c) == CHOOSE i \in 1..Len(Alphabet) : Alphabet[i] = c

\* "2024-01-<dd>T<hh>:00:00Z" as characters.
IsoChars(dd, hh) ==
    << "2", "0", "2", "4", "-", "0", "1", "-" >> \o dd \o << "T" >> \o hh
    \o << ":", "0", "0", ":", "0", "0", "Z" >>

\* The characters of the strings that the store compares and the endpoint slices.
Chars(str) ==
    CASE str = "2024-01-01T00:00:00Z" -> IsoChars(<< "0", "1" >>, << "0", "0" >>)
      [] str = "2024-01-02T00:00:00Z" -> IsoChars(<< "0", "2" >>, << "0", "0" >>)
      [] str = "2024-01-02T12:00:00Z" -> IsoChars(<< "0", "2" >>, << "1", "2" >>)
      [] str = "2024-01-03T00:00:00Z" -> IsoChars(<< "0", "3" >>, << "0", "0" >>)
      [] str = "2024-01-02" -> << "2", "0", "2", "4", "-", "0", "1", "-", "0", "2" >>
      [] str = "" -> << >>

\* SQLite's comparison of two TEXT values (BINARY collation): byte by byte, a
\* proper prefix is smaller.
RECURSIVE TextLess(_, _)
TextLess(a, b) ==
    IF b = << >> THEN FALSE
    ELSE IF a = << >> THEN TRUE
    ELSE IF Head(a) # Head(b) THEN CharCode(Head(a)) < CharCode(Head(b))
    ELSE TextLess(Tail(a), Tail(b))

TextLeq(a, b) == a = b \/ TextLess(a, b)

\* json.loads of an encoded raw_data document: the inverse reading of JsonDumps.
RECURSIVE LoadItems(_)
LoadItems(tokens) ==
    IF Len(tokens) < 6 THEN << >>
    ELSE LET k == tokens[2]
             v == (CHOOSE d \in 1..16 : LowerHex[d] = tokens[6]) - 1
             rest == IF Len(tokens) >= 8 THEN SubSeq(tokens, 9, Len(tokens)) ELSE << >>
             more == LoadItems(rest)
         IN  [ x \in {k} \cup DOMAIN more |-> IF x = k THEN v ELSE more[x] ]

\* Mutant: the stored text is returned undecoded.
JsonLoads_Undecoded(text) == text

JsonLoads(text) == LoadItems(SubSeq(text, 2, Len(text) - 1))

(* ------------------------------ get_messages --------------------------- *)

\* An optional query parameter that was not given (None).
Absent == "<none>"

\* Mutant: `if source is not None:`.
Truthy_NotNone(param) == param # Absent

\* `if source:` -- the parameter is given and is not the empty string.
Truthy(param) == param # Absent /\ param # ""

\* The WHERE clause built by get_messages ("1=1" when no condition is added).
WhereClause(row, source, start_date, end_date) ==
    /\ Truthy(source) => row.source = source
    /\ Truthy(start_date) => TextLeq(Chars(start_date), Chars(row.timestamp))
    /\ Truthy(end_date) => TextLeq(Chars(row.timestamp), Chars(end_date))

\* Mutant: COUNT(*) without the WHERE clause.
CountRows_Unfiltered(rows, source, start_date, end_date) == Len(rows)

\* SELECT COUNT(*) ... WHERE ...
CountRows(rows, source, start_date, end_date) ==
    Cardinality({ i \in 1..Len(rows) : WhereClause(rows[i], source, start_date, end_date) })

\* Whether row a comes before row b under ORDER BY timestamp DESC.  SQL leaves
\* the order of equal timestamps open; the engine's plan for one statement
\* gives them in rowid order, ascending or descending (`tie`).
ComesBefore(a, b, tie) ==
    \/ TextLess(Chars(b.row.timestamp), Chars(a.row.timestamp))
    \/ /\ a.row.timestamp = b.row.timestamp
       /\ IF tie = "rowid_asc" THEN a.rowid < b.rowid ELSE a.rowid > b.rowid

\* Insert x into the ordered sequence seq.
RECURSIVE InsertOrdered(_, _, _)
InsertOrdered(x, seq, tie) ==
    IF seq = << >> THEN << x >>
    ELSE IF ComesBefore(x, Head(seq), tie) THEN << x >> \o seq
    ELSE << Head(seq) >> \o InsertOrdered(x, Tail(seq), tie)

\* SELECT ... WHERE ... ORDER BY timestamp DESC: the matching rows, ordered.
RECURSIVE SelectOrdered(_, _, _, _, _, _)
SelectOrdered(rows, n, source, start_date, end_date, tie) ==
    IF n = 0 THEN << >>
    ELSE LET before == SelectOrdered(rows, n - 1, source, start_date, end_date, tie) IN
         IF WhereClause(rows[n], source, start_date, end_date)
         THEN InsertOrdered([ rowid |-> n, row |-> rows[n] ], before, tie)
         ELSE before

\* LIMIT ? OFFSET ?
LimitOffset(seq, limit, offset) ==
    SubSeq(seq, offset + 1, IF offset + limit < Len(seq) THEN offset + limit ELSE Len(seq))

\* Mutant: pages counted from 0.
PageOffset_ZeroIndexed(page, page_size) == page * page_size

\* offset = (page - 1) * page_size
PageOffset(page, page_size) == (page - 1) * page_size

\* The dict that get_messages builds for a row: raw_data decoded.
MessageDict(row) ==
    [ message_id |-> row.message_id, timestamp |-> Chars(row.timestamp),
      source |-> row.source, raw_data |-> JsonLoads(row.raw_data),
      created_at |-> row.created_at ]

\* The page SELECT of get_messages and the loop over its rows.
SelectPage(rows, page, page_size, source, start_date, end_date, tie) ==
    LET ordered == SelectOrdered(rows, Len(rows), source, start_date, end_date, tie)
        window  == LimitOffset(ordered, page_size, PageOffset(page, page_size))
    IN  [ i \in 1..Len(window) |-> MessageDict(window[i].row) ]

(* --------------------------- GET /messages ----------------------------- *)

\* msg["timestamp"][:10]
DisplayLen == 10

\* Mutant: the timestamp is returned as stored.
DisplayTimestamp_Full(chars) == chars

DisplayTimestamp(chars) ==
    SubSeq(chars, 1, IF Len(chars) < DisplayLen THEN Len(chars) ELSE DisplayLen)

\* page_size: Query(10, ge=1, le=100)
MaxPageSize == 100

\* Query(1, ge=1) and Query(10, ge=1, le=100): whether FastAPI accepts the parameters.
QueryParamsValid(page, page_size) ==
    page >= 1 /\ page_size >= 1 /\ page_size <= MaxPageSize

\* Mutant: total // page_size.
TotalPages_Floor(total, page_size) == total \div page_size

\* total_pages = (total + page_size - 1) // page_size if total > 0 else 0
TotalPages(total, page_size) ==
    IF total > 0 THEN (total + page_size - 1) \div page_size ELSE 0

\* MessageListResponse(messages=..., total=..., page=..., page_size=..., total_pages=...)
MessageListResponse(dicts, total, page, page_size) ==
    [ status |-> 200,
      messages |-> [ i \in 1..Len(dicts) |->
                       [ dicts[i] EXCEPT !.timestamp = DisplayTimestamp(@) ] ],
      total |-> total, page |-> page, page_size |-> page_size,
      total_pages |-> TotalPages(total, page_size) ]

\* A response of GET /messages without a list: 422 from the parameter
\* validation, 500 from `except Exception`.
QueryError(status, page, page_size) ==
    [ status |-> status, messages |-> << >>, total |-> 0, page |-> page,
      page_size |-> page_size, total_pages |-> 0 ]

(* ------------------------------ health, startup ----------------------- *)

\* HealthResponse(status=...) under a status code; the 503 is an HTTPException.
HealthResponse(code, text) == [ status |-> code, body |-> text ]

\* Mutant: the probe does not touch the store.
check_db_ready_Always(available) == TRUE

\* check_db_ready: open a connection and run SELECT 1; False on any exception.
check_db_ready(available) == available

\* Mutant: `os.getenv("WEBHOOK_SECRET") is not None`.
webhook_secret_exists_NotNone(env) == env # Unset

\* bool(os.getenv("WEBHOOK_SECRET"))
webhook_secret_exists(env) == env # Unset /\ env # ""

\* health_ready
health_ready(available, env) ==
    IF check_db_ready(available) /\ webhook_secret_exists(env)
    THEN HealthResponse(200, "ready")
    ELSE HealthResponse(503, "Service not ready")

\* health_live
health_live == HealthResponse(200, "alive")

\* Mutant: CREATE TABLE after DROP TABLE IF EXISTS.
CreateTableIfNotExists_Recreate(exists, rows) == << >>

\* CREATE TABLE IF NOT EXISTS messages (...): the rows of the table afterwards.
CreateTableIfNotExists(exists, rows) == IF exists THEN rows ELSE << >>

\* From the first start on, the database file holds table messages.
TableExists == TRUE

\* init_db: the exception it ends with and the rows of the table afterwards.
init_db(available, rows) ==
    IF ~available
    THEN [ raised |-> "OperationalError", rows |-> rows ]
    ELSE [ raised |-> "none", rows |-> CreateTableIfNotExists(TableExists, rows) ]

(* ---------------------------- get_db_connection ------------------------ *)

\* What has happened to a connection, in order.  sqlite3.connect has returned:
Connected == << "connect" >>

\* Mutant: `conn.close()` follows the commit instead of standing in `finally`.
ExitBlock_NoFinally(trace, how) ==
    CASE how = "return" -> trace \o << "commit", "close" >>
      [] how = "commit_raises" -> trace \o << "commit", "rollback", "raise" >>
      [] how = "exception" -> trace \o << "rollback", "raise" >>

\* The `with get_db_connection()` block is left: by reaching its end (commit,
\* then close), by a commit that raises, or by an exception raised inside
\* (rollback, close in `finally`, the exception raised again).
ExitBlock(trace, how) ==
    CASE how = "return" -> trace \o << "commit", "close" >>
      [] how = "commit_raises" -> trace \o << "commit", "rollback", "close", "raise" >>
      [] how = "exception" -> trace \o << "rollback", "close", "raise" >>

\* A block on a store that cannot be reached: sqlite3.connect raises and
\* there is no connection, or the first statement raises.
FailedBlocks == { << >>, ExitBlock(Connected, "exception") }

(* ------------------------------- state --------------------------------- *)

VARIABLES
    webhook_secret,   \* the environment's WEBHOOK_SECRET
    db_available,     \* whether the database file can be opened and written
    messages,         \* the rows of table messages, in insertion order
    db_lock,          \* the worker holding SQLite's write lock, 0 when free
    now,              \* the last reading of the server clock
    nreq,             \* requests received so far
    messages_in_db,   \* the gauge of app/metrics.py
    req,              \* per worker: the request it is handling
    query,            \* the GET /messages request being handled
    client,           \* the caller of GET /messages: its parameters and the pages it got
    probe,            \* the health request being handled
    conn              \* per request: what happened to the connection opened for it

vars == << webhook_secret, db_available, messages, db_lock, now, nreq,
           messages_in_db, req, query, client, probe, conn >>

EmptyBody == OtherBody(TRUE, "garbage", "null")

IdleReq ==
    [ pc |-> "idle", header |-> NoHeader, body |-> EmptyBody, body_read |-> FALSE,
      inserted |-> FALSE, created_at |-> 0, response |-> NoResponse ]

\* No GET /messages request is being handled.
IdleQuery ==
    [ pc |-> "idle", page |-> 0, total |-> 0, response |-> QueryError(0, 0, 0) ]

\* page_size: int = Query(10, ge=1, le=100)
DefaultPageSize == 10

\* A caller of GET /messages with the given parameters, before its first page.
\* `tie` is the order in which the engine gives rows of equal timestamp.
Client(page_size, source, start_date, end_date, tie) ==
    [ page_size |-> page_size, source |-> source, start_date |-> start_date,
      end_date |-> end_date, tie |-> tie, pages |-> << >> ]

\* GET /messages without parameters.
DefaultClient == Client(DefaultPageSize, Absent, Absent, Absent, "rowid_desc")

\* The orders in which the engine gives rows of equal timestamp.
TieOrders == { "rowid_asc", "rowid_desc" }

\* No health request is being handled.
IdleProbe == [ pc |-> "idle", endpoint |-> "none", response |-> HealthResponse(0, "") ]

\* No request has a connection.
NoConnections ==
    [ req |-> [ w \in Workers |-> << >> ], query |-> << >>, probe |-> << >> ]

\* The request ends with `resp`.
Respond(r, resp) == [ r EXCEPT !.pc = "done", !.response = resp ]

\* Mutant: `except HTTPException: raise` is missing.
WebhookExcept_NoReraise(raised, resp) == InternalServerError

\* `except HTTPException: raise` / `except Exception: ... raise HTTPException(500)`.
WebhookExcept(raised, resp) ==
    IF raised = "HTTPException" THEN resp ELSE InternalServerError

\* The state after init_db on a new database file.  The secret is read from
\* the environment and stays as it is; the store is available and stays so in
\* Spec and SerialSpec (the branches for an unavailable store are the
\* OperationalError paths of insert_message).
Init ==
    /\ webhook_secret \in EnvValues
    /\ db_available = TRUE
    /\ messages = << >>
    /\ db_lock = 0
    /\ now = 0
    /\ nreq = 0
    /\ messages_in_db = 0
    /\ req = [ w \in Workers |-> IdleReq ]
    /\ query = IdleQuery
    /\ client = DefaultClient
    /\ probe = IdleProbe
    /\ conn = NoConnections

(* ------------------------------ POST /webhook -------------------------- *)

\* received -> authenticated: a request arrives and validate_hmac_signature runs.
Authenticate(w, inputs) ==
    /\ UNCHANGED << query, client, probe >>
    /\ req[w].pc = "idle"
    /\ nreq < MaxRequests
    /\ \E rq \in inputs :
         LET auth == validate_hmac_signature(rq.header, rq.body, webhook_secret)
             r    == [ IdleReq EXCEPT !.header = rq.header, !.body = rq.body,
                                      !.body_read = auth.body_read ]
         IN  req' = [ req EXCEPT ![w] =
                        IF auth.raised = "none"
                        THEN [ r EXCEPT !.pc = "authenticated" ]
                        ELSE Respond(r, WebhookExcept(auth.raised, auth.response)) ]
    /\ nreq' = nreq + 1
    /\ UNCHANGED << webhook_secret, db_available, messages, db_lock, now, messages_in_db >>
    /\ UNCHANGED conn

\* authenticated -> parsed: json.loads(body_bytes.decode("utf-8")).
Parse(w) ==
    /\ UNCHANGED << query, client, probe >>
    /\ req[w].pc = "authenticated"
    /\ LET exc == ParseBody(req[w].body) IN
       req' = [ req EXCEPT ![w] =
                  IF exc = "none" THEN [ @ EXCEPT !.pc = "parsed" ]
                  ELSE IF ParseErrorCaught(exc)
                       THEN Respond(@, HTTPException(400, "Invalid JSON payload"))
                       ELSE Respond(@, WebhookExcept(exc, NoResponse)) ]
    /\ UNCHANGED << webhook_secret, db_available, messages, db_lock, now, nreq,
                    messages_in_db >>
    /\ UNCHANGED conn

\* parsed -> validated: WebhookPayload(**payload).
Validate(w) ==
    /\ UNCHANGED << query, client, probe >>
    /\ req[w].pc = "parsed"
    /\ LET exc == WebhookPayload(req[w].body)
           handler == ValidationHandler(req[w].body)
       IN  req' = [ req EXCEPT ![w] =
                      IF exc = "none" THEN [ @ EXCEPT !.pc = "validated" ]
                      ELSE IF handler = "none"
                           THEN Respond(@, HTTPException(400, "Invalid payload structure"))
                           ELSE Respond(@, WebhookExcept(handler, NoResponse)) ]
    /\ UNCHANGED << webhook_secret, db_available, messages, db_lock, now, nreq,
                    messages_in_db >>
    /\ UNCHANGED conn

\* validated -> the INSERT statement of insert_message.  The statement takes
\* SQLite's write lock (it waits while another connection holds it), then the
\* primary key is checked against the committed rows: a violation raises
\* IntegrityError, which rolls back, closes and returns False.
InsertExecute(w) ==
    /\ UNCHANGED << query, client, probe >>
    /\ req[w].pc = "validated"
    /\ db_available => WriteLockFree(db_lock)
    /\ IF ~db_available
       THEN /\ req' = [ req EXCEPT ![w] = Respond(@, WebhookExcept("OperationalError", NoResponse)) ]
            /\ UNCHANGED << db_lock, now >>
       ELSE IF PrimaryKeyViolation(messages, req[w].body.message_id)
       THEN /\ req' = [ req EXCEPT ![w] = [ @ EXCEPT !.pc = "persisted", !.inserted = FALSE ] ]
            /\ UNCHANGED << db_lock, now >>
       ELSE \E t \in now..MaxClock :
            /\ now' = t
            /\ db_lock' = w
            /\ req' = [ req EXCEPT ![w] = [ @ EXCEPT !.pc = "executed", !.created_at = t ] ]
    /\ UNCHANGED << webhook_secret, db_available, messages, nreq, messages_in_db >>
    /\ IF ~db_available
       THEN \E t \in FailedBlocks : conn' = [ conn EXCEPT !.req[w] = t ]
       ELSE conn' = [ conn EXCEPT !.req[w] =
                        IF PrimaryKeyViolation(messages, req[w].body.message_id)
                        THEN ExitBlock(Connected, "exception")
                        ELSE Connected ]

\* Mutant: a commit that fails leaves the row of the INSERT behind.
InsertCommit_RowKept(w) ==
    /\ UNCHANGED << query, client, probe >>
    /\ req[w].pc = "executed"
    /\ db_lock' = 0
    /\ messages' = Append(messages,
          Row(req[w].body.message_id, req[w].body.timestamp, req[w].body.source,
              req[w].body.raw_doc, req[w].created_at))
    /\ req' = [ req EXCEPT ![w] =
                  IF db_available
                  THEN [ @ EXCEPT !.pc = "persisted", !.inserted = TRUE ]
                  ELSE Respond(@, WebhookExcept("OperationalError", NoResponse)) ]
    /\ UNCHANGED << webhook_secret, db_available, now, nreq, messages_in_db >>
    /\ conn' = [ conn EXCEPT !.req[w] =
                   ExitBlock(@, IF db_available THEN "return" ELSE "commit_raises") ]

\* conn.commit() and conn.close() of get_db_connection, then `return True`.
InsertCommit(w) ==
    /\ UNCHANGED << query, client, probe >>
    /\ req[w].pc = "executed"
    /\ db_lock' = 0
    /\ IF db_available
       THEN /\ messages' = Append(messages,
                  Row(req[w].body.message_id, req[w].body.timestamp, req[w].body.source,
                      req[w].body.raw_doc, req[w].created_at))
            /\ req' = [ req EXCEPT ![w] = [ @ EXCEPT !.pc = "persisted", !.inserted = TRUE ] ]
       ELSE /\ messages' = messages
            /\ req' = [ req EXCEPT ![w] = Respond(@, WebhookExcept("OperationalError", NoResponse)) ]
    /\ UNCHANGED << webhook_secret, db_available, now, nreq, messages_in_db >>
    /\ conn' = [ conn EXCEPT !.req[w] =
                   ExitBlock(@, IF db_available THEN "return" ELSE "commit_raises") ]

\* persisted -> classified: the gauge and the 201 response.
Classify(w) ==
    /\ UNCHANGED << query, client, probe >>
    /\ req[w].pc = "persisted"
    /\ messages_in_db' = IF req[w].inserted THEN messages_in_db + 1 ELSE messages_in_db
    /\ req' = [ req EXCEPT ![w] = Respond(@, Created(@.body.message_id, @.inserted)) ]
    /\ UNCHANGED << webhook_secret, db_available, messages, db_lock, now, nreq >>
    /\ UNCHANGED conn

\* The response is sent and the worker is free again.
Reply(w) ==
    /\ UNCHANGED << query, client, probe >>
    /\ req[w].pc = "done"
    /\ req' = [ req EXCEPT ![w] = IdleReq ]
    /\ UNCHANGED << webhook_secret, db_available, messages, db_lock, now, nreq,
                    messages_in_db >>
    /\ conn' = [ conn EXCEPT !.req[w] = << >> ]

(* ------------------------------ GET /messages -------------------------- *)

\* The message_ids of a response's list.
PageIds(response) == [ i \in 1..Len(response.messages) |-> response.messages[i].message_id ]

\* The caller asks for its next page.  FastAPI checks the parameters (422),
\* then get_messages opens a connection and runs the COUNT statement.
QueryCount ==
    /\ query.pc = "idle"
    /\ Len(client.pages) < MaxPage
    /\ LET page == Len(client.pages) + 1 IN
       query' =
         IF ~QueryParamsValid(page, client.page_size)
         THEN [ pc |-> "done", page |-> page, total |-> 0,
                response |-> QueryError(422, page, client.page_size) ]
         ELSE IF ~db_available
         THEN [ pc |-> "done", page |-> page, total |-> 0,
                response |-> QueryError(500, page, client.page_size) ]
         ELSE [ pc |-> "counted", page |-> page,
                total |-> CountRows(messages, client.source, client.start_date,
                                    client.end_date),
                response |-> QueryError(0, 0, 0) ]
    /\ UNCHANGED << webhook_secret, db_available, messages, db_lock, now, nreq,
                    messages_in_db, req, client, probe >>
    /\ IF ~QueryParamsValid(Len(client.pages) + 1, client.page_size)
       THEN conn' = conn
       ELSE IF ~db_available
       THEN \E t \in FailedBlocks : conn' = [ conn EXCEPT !.query = t ]
       ELSE conn' = [ conn EXCEPT !.query = Connected ]

\* The page SELECT of get_messages, a statement of its own on the same
\* connection, and the response built by get_messages_endpoint.
QuerySelect ==
    /\ query.pc = "counted"
    /\ query' =
         [ query EXCEPT
             !.pc = "done",
             !.response =
                 IF ~db_available
                 THEN QueryError(500, query.page, client.page_size)
                 ELSE MessageListResponse(
                          SelectPage(messages, query.page, client.page_size,
                                     client.source, client.start_date,
                                     client.end_date, client.tie),
                          query.total, query.page, client.page_size) ]
    /\ UNCHANGED << webhook_secret, db_available, messages, db_lock, now, nreq,
                    messages_in_db, req, client, probe >>
    /\ conn' = [ conn EXCEPT !.query =
                   ExitBlock(@, IF db_available THEN "return" ELSE "exception") ]

\* The response reaches the caller, who keeps the page.
QueryReturn ==
    /\ query.pc = "done"
    /\ client' = [ client EXCEPT !.pages = Append(@, PageIds(query.response)) ]
    /\ query' = IdleQuery
    /\ UNCHANGED << webhook_secret, db_available, messages, db_lock, now, nreq,
                    messages_in_db, req, probe >>
    /\ conn' = [ conn EXCEPT !.query = << >> ]

(* ------------------------ health probes, faults, restart ---------------- *)

\* GET /health/ready
HealthReady ==
    /\ probe.pc = "idle"
    /\ probe' = [ pc |-> "done", endpoint |-> "/health/ready",
                  response |-> health_ready(db_available, webhook_secret) ]
    /\ UNCHANGED << webhook_secret, db_available, messages, db_lock, now, nreq,
                    messages_in_db, req, query, client >>
    /\ IF check_db_ready(db_available)
       THEN conn' = [ conn EXCEPT !.probe = ExitBlock(Connected, "return") ]
       ELSE \E t \in FailedBlocks : conn' = [ conn EXCEPT !.probe = t ]

\* GET /health/live
HealthLive ==
    /\ probe.pc = "idle"
    /\ probe' = [ pc |-> "done", endpoint |-> "/health/live", response |-> health_live ]
    /\ UNCHANGED << webhook_secret, db_available, messages, db_lock, now, nreq,
                    messages_in_db, req, query, client >>
    /\ UNCHANGED conn

\* The health response is sent.
HealthReturn ==
    /\ probe.pc = "done"
    /\ probe' = IdleProbe
    /\ UNCHANGED << webhook_secret, db_available, messages, db_lock, now, nreq,
                    messages_in_db, req, query, client >>
    /\ conn' = [ conn EXCEPT !.probe = << >> ]

\* The database file can no longer be opened or written (disk, permissions).
StoreFails ==
    /\ db_available
    /\ db_available' = FALSE
    /\ UNCHANGED << webhook_secret, messages, db_lock, now, nreq, messages_in_db,
                    req, query, client, probe >>
    /\ UNCHANGED conn

\* The database file is reachable again.
StoreRecovers ==
    /\ ~db_available
    /\ db_available' = TRUE
    /\ UNCHANGED << webhook_secret, messages, db_lock, now, nreq, messages_in_db,
                    req, query, client, probe >>
    /\ UNCHANGED conn

\* The process is started again on the same database file: lifespan runs
\* init_db.  Requests in flight are lost, an uncommitted INSERT is rolled
\* back, the new process's gauge starts at 0.  A start on which init_db
\* raises leaves no serving process.
Restart ==
    /\ LET boot == init_db(db_available, messages) IN
         /\ boot.raised = "none"
         /\ messages' = boot.rows
    /\ db_lock' = 0
    /\ messages_in_db' = 0
    /\ req' = [ w \in Workers |-> IdleReq ]
    /\ query' = IdleQuery
    /\ probe' = IdleProbe
    /\ UNCHANGED << webhook_secret, db_available, now, nreq, client >>
    /\ conn' = NoConnections

\* Requests handled concurrently by all workers, sent by clients that hold the secret.
Next ==
    \E w \in Workers :
        \/ Authenticate(w, SignedRequests)
        \/ Parse(w)
        \/ Validate(w)
        \/ InsertExecute(w)
        \/ InsertCommit(w)
        \/ Classify(w)
        \/ Reply(w)

Spec == Init /\ [][Next]_vars

\* Requests handled one at a time, with every header of the model.
SerialNext ==
    \/ Authenticate(1, Requests)
    \/ Parse(1)
    \/ Validate(1)
    \/ InsertExecute(1)
    \/ InsertCommit(1)
    \/ Classify(1)
    \/ Reply(1)

SerialSpec == Init /\ [][SerialNext]_vars

(* ---------------------- reading while requests write ------------------- *)

\* The page sizes of a caller that reads while the store grows.
SmallPageSizes == { 1, 2 }

\* A server with a secret and an empty store, and a caller who reads all
\* messages page by page.
ReadWriteInit ==
    /\ webhook_secret = TestSecret
    /\ db_available = TRUE
    /\ messages = << >>
    /\ db_lock = 0
    /\ now = 0
    /\ nreq = 0
    /\ messages_in_db = 0
    /\ req = [ w \in Workers |-> IdleReq ]
    /\ query = IdleQuery
    /\ client \in { Client(k, Absent, Absent, Absent, tie) :
                       k \in SmallPageSizes, tie \in TieOrders }
    /\ probe = IdleProbe
    /\ conn = NoConnections

\* One worker handles POST /webhook while GET /messages is handled; each
\* statement of either is a step.
ReadWriteNext ==
    \/ Authenticate(1, SignedRequests)
    \/ Parse(1)
    \/ Validate(1)
    \/ InsertExecute(1)
    \/ InsertCommit(1)
    \/ Classify(1)
    \/ Reply(1)
    \/ QueryCount
    \/ QuerySelect
    \/ QueryReturn

ReadWriteSpec == ReadWriteInit /\ [][ReadWriteNext]_vars

(* ----------------------- every operation of the service ----------------- *)

\* The caller asks for the first page, once.
OpsQueryCount == client.pages = << >> /\ QueryCount

\* One worker for POST /webhook, one caller of GET /messages without
\* parameters, health probes, store faults and restarts.
OpsNext ==
    \/ Authenticate(1, SignedRequests)
    \/ Parse(1)
    \/ Validate(1)
    \/ InsertExecute(1)
    \/ InsertCommit(1)
    \/ Classify(1)
    \/ Reply(1)
    \/ OpsQueryCount
    \/ QuerySelect
    \/ QueryReturn
    \/ HealthReady
    \/ HealthLive
    \/ HealthReturn
    \/ StoreFails
    \/ StoreRecovers
    \/ Restart

OpsSpec == Init /\ [][OpsNext]_vars

(* -------------------- queries against a store that is given ------------- *)

\* Rows that accepted webhook requests have stored: two sources, two rows of
\* equal timestamp (m2, m3), two of the same day (m3, m4).
StoredPool ==
    << Row("m1", "2024-01-01T00:00:00Z", "A", [ key |-> 1 ], 0),
       Row("m2", "2024-01-02T00:00:00Z", "B", [ key |-> 2 ], 0),
       Row("m3", "2024-01-02T00:00:00Z", "A", NoDoc, 0),
       Row("m4", "2024-01-02T12:00:00Z", "A", [ key |-> 3, other |-> 4 ], 0),
       Row("m5", "2024-01-03T00:00:00Z", "B", NoDoc, 0) >>

\* The rows of StoredPool at the positions `chosen`, in the pool's order.
RECURSIVE StoreOf(_, _)
StoreOf(chosen, n) ==
    IF n = 0 THEN << >>
    ELSE IF n \in chosen THEN Append(StoreOf(chosen, n - 1), StoredPool[n])
    ELSE StoreOf(chosen, n - 1)

Stores ==
    { StoreOf(chosen, Len(StoredPool)) :
        chosen \in { c \in SUBSET (1..Len(StoredPool)) : Cardinality(c) <= MaxStored } }

\* The parameters that callers send.
PageSizes == { 0, 1, 2, DefaultPageSize, MaxPageSize, MaxPageSize + 1 }
SourceParams == { Absent, "", "A" }
StartParams == { Absent, "2024-01-02", "2024-01-02T00:00:00Z" }
EndParams == { Absent, "", "2024-01-02", "2024-01-02T12:00:00Z" }

Clients ==
    { Client(k, src, sd, ed, tie) :
        k \in PageSizes, src \in SourceParams, sd \in StartParams,
        ed \in EndParams, tie \in TieOrders }

\* A server with a secret, a store of rows and one caller of GET /messages.
QueryInit ==
    /\ webhook_secret = TestSecret
    /\ db_available = TRUE
    /\ messages \in Stores
    /\ db_lock = 0
    /\ now = 0
    /\ nreq = 0
    /\ messages_in_db = Len(messages)
    /\ req = [ w \in Workers |-> IdleReq ]
    /\ query = IdleQuery
    /\ client \in Clients
    /\ probe = IdleProbe
    /\ conn = NoConnections

\* One caller reads its pages in turn; nothing writes.
QueryNext ==
    \/ QueryCount
    \/ QuerySelect
    \/ QueryReturn

QuerySpec == QueryInit /\ [][QueryNext]_vars

(* ----------------------------- properties ----------------------------- *)

\* The request r is signed with the configured secret over its own body.
ValidlySigned(r) ==
    /\ webhook_secret = TestSecret
    /\ r.header.present
    /\ r.header.value = HexDigest(webhook_secret, r.body)

\* The body of r is a JSON object of the required shape.
WellFormed(r) ==
    /\ ParseBody(r.body) = "none"
    /\ WebhookPayload(r.body) = "none"

\* The row that request r writes.
RowOf(r) ==
    Row(r.body.message_id, r.body.timestamp, r.body.source, r.body.raw_doc, r.created_at)

HasRow(id) == \E i \in 1..Len(messages) : messages[i].message_id = id

\* C1: the table holds at most one row per message_id, every row is the one
\* written by the request that inserted it, and no later request (same id, same
\* or different raw_data) changes any field of a stored row.
C1_FirstWriteWins ==
    [][ /\ \A i, j \in 1..Len(messages') :
             messages'[i].message_id = messages'[j].message_id => i = j
        /\ \A i \in 1..Len(messages) :
             Len(messages') >= i /\ messages'[i] = messages[i]
        /\ Len(messages') > Len(messages) =>
             /\ Len(messages') = Len(messages) + 1
             /\ \E w \in Workers :
                  /\ req[w].pc = "executed"
                  /\ req'[w].pc = "persisted"
                  /\ messages'[Len(messages')] = RowOf(req[w]) ]_vars

\* C1 witness: a request with a stored message_id and another raw_data was
\* answered as a duplicate, and the row still holds the first raw_data.
C1_Witness ==
    \E w \in Workers :
        /\ req[w].pc = "done"
        /\ req[w].response.status = 201
        /\ req[w].response.duplicate
        /\ \E i \in 1..Len(messages) :
             /\ messages[i].message_id = req[w].body.message_id
             /\ messages[i].raw_data # JsonDumps(req[w].body.raw_doc)
             /\ messages[i].timestamp # req[w].body.timestamp

\* The call of insert_message by worker w returns True (its INSERT went
\* through, committed or about to commit).
InsertWins(r) ==
    \/ r.pc = "executed"
    \/ r.pc = "persisted" /\ r.inserted

\* C2: of the insert_message calls in flight with one message_id at most one
\* returns True; a call that returns False wrote nothing and found the row of
\* the call that won.
C2_OneWinner ==
    [][ /\ \A w1, w2 \in Workers :
             ( /\ InsertWins(req'[w1])
               /\ InsertWins(req'[w2])
               /\ req'[w1].body.message_id = req'[w2].body.message_id ) => w1 = w2
        /\ \A w \in Workers :
             ( /\ req[w].pc = "validated"
               /\ req'[w].pc = "persisted" ) =>
                 /\ ~req'[w].inserted
                 /\ messages' = messages
                 /\ HasRow(req[w].body.message_id) ]_vars

\* C2 witness: two calls with one message_id have both returned, one True and
\* one False.
C2_Witness ==
    \E w1, w2 \in Workers :
        /\ w1 # w2
        /\ req[w1].pc = "persisted" /\ req[w1].inserted
        /\ req[w2].pc = "persisted" /\ ~req[w2].inserted
        /\ req[w1].body.message_id = req[w2].body.message_id

\* C3: a validly signed, well-formed request is answered 201 with its own
\* message_id; duplicate is false exactly when this request created the row,
\* true exactly when the row was already there.
C3_Classified ==
    \A w \in Workers :
        ( /\ req[w].pc = "done"
          /\ ValidlySigned(req[w])
          /\ WellFormed(req[w]) ) =>
            /\ req[w].response.status = 201
            /\ req[w].response.message_id = req[w].body.message_id
            /\ req[w].response.duplicate = ~req[w].inserted
            /\ HasRow(req[w].body.message_id)
            /\ req[w].inserted =>
                 \E i \in 1..Len(messages) : messages[i] = RowOf(req[w])

\* C3 witness: two requests with one message_id are answered, one as new and
\* one as a duplicate.
C3_Witness ==
    \E w1, w2 \in Workers :
        /\ req[w1].pc = "done" /\ req[w2].pc = "done"
        /\ req[w1].body.message_id = req[w2].body.message_id
        /\ req[w1].response.status = 201 /\ ~req[w1].response.duplicate
        /\ req[w2].response.status = 201 /\ req[w2].response.duplicate

\* The request r is past validate_hmac_signature.
PastAuthentication(r) ==
    \/ r.pc \in {"authenticated", "parsed", "validated", "executed", "persisted"}
    \/ r.pc = "done" /\ r.response.status \in {201, 400}

\* The header of r is the digest of another body than the one r carries.
BodyAltered(r) ==
    /\ r.header.present
    /\ r.header.value = HexDigest(TestSecret, OtherBodyThan(r.body))

\* C4: only a request whose X-Signature is the lowercase hex digest of its own
\* body under the configured secret passes authentication and writes a row;
\* such a request does pass, and a request whose body differs from the signed
\* body is answered 401 and writes nothing.
C4_OnlySignedBodies ==
    [][ /\ \A w \in Workers : PastAuthentication(req'[w]) => ValidlySigned(req'[w])
        /\ messages' # messages =>
             \E w \in Workers :
                 /\ req[w].pc = "executed"
                 /\ ValidlySigned(req[w])
                 /\ messages' = Append(messages, RowOf(req[w]))
        /\ \A w \in Workers :
             ( req[w].pc = "idle" /\ req'[w].pc # "idle" ) =>
                 /\ ValidlySigned(req'[w]) =>
                      req'[w].pc = "authenticated" /\ req'[w].body_read
                 /\ ( webhook_secret = TestSecret /\ BodyAltered(req'[w]) ) =>
                      /\ req'[w].pc = "done"
                      /\ req'[w].response.status = 401
                      /\ messages' = messages ]_vars

\* C4 witness: with a row stored by a signed request, a request whose body was
\* altered after signing has been answered 401.
C4_Witness ==
    /\ Len(messages) >= 1
    /\ webhook_secret = TestSecret
    /\ req[1].pc = "done"
    /\ BodyAltered(req[1])
    /\ WellFormed(req[1])
    /\ req[1].response.status = 401

\* C5: a request without X-Signature is answered 401 before the body is read,
\* whatever the body and the secret, and the table is unchanged.
C5_MissingHeader ==
    [][ \A w \in Workers :
          /\ ( req'[w].pc # "idle" /\ ~req'[w].header.present ) =>
               /\ req'[w].pc = "done"
               /\ req'[w].response.status = 401
               /\ ~req'[w].body_read
          /\ ( req[w].pc = "idle" /\ req'[w].pc # "idle" /\ ~req'[w].header.present ) =>
               messages' = messages ]_vars

\* C5 witness: with no secret configured, a well-formed body sent without the
\* header has been answered 401.
C5_Witness ==
    /\ webhook_secret = Unset
    /\ req[1].pc = "done"
    /\ ~req[1].header.present
    /\ WellFormed(req[1])
    /\ req[1].response.status = 401
    /\ ~req[1].body_read

\* C6: with a secret configured, every request whose X-Signature is present
\* and differs from the expected digest is answered 401.
C6_MismatchIs401 ==
    \A w \in Workers :
        ( /\ req[w].pc = "done"
          /\ webhook_secret = TestSecret
          /\ req[w].header.present
          /\ req[w].header.value # HexDigest(webhook_secret, req[w].body) ) =>
            req[w].response.status = 401

SecretConfigured == webhook_secret # Unset /\ webhook_secret # ""

MissingSignature(r) == ~r.header.present \/ r.header.value = << >>

SecretUnavailable(r) == ~MissingSignature(r) /\ ~SecretConfigured

SignatureMismatch(r) ==
    /\ ~MissingSignature(r)
    /\ SecretConfigured
    /\ r.header.value # HexDigest(webhook_secret, r.body)

C9_UnparsableIs400 ==
    \A w \in Workers :
        ( /\ req[w].pc = "done"
          /\ ValidlySigned(req[w])
          /\ ParseBody(req[w].body) # "none" ) =>
            /\ req[w].response.status = 400
            /\ ~req[w].inserted

\* C10: a validly signed JSON body of the wrong shape (no object at the top
\* level, a required field missing, raw_data a scalar) is answered 400 and
\* creates no row; a body with the four fields and an empty raw_data document
\* is accepted.
C10_BadShapeIs400 ==
    \A w \in Workers :
        ( /\ req[w].pc = "done"
          /\ ValidlySigned(req[w])
          /\ ParseBody(req[w].body) = "none" ) =>
            /\ WebhookPayload(req[w].body) # "none" =>
                 req[w].response.status = 400 /\ ~req[w].inserted
            /\ ( WebhookPayload(req[w].body) = "none" /\ req[w].body.raw_doc = NoDoc ) =>
                 req[w].response.status = 201


(* ------------------------- claims about GET /messages ------------------- *)

\* The caller sent no filter.
NoFilter == client.source = Absent /\ client.start_date = Absent /\ client.end_date = Absent

\* No two stored rows have the same timestamp.
DistinctTimestamps ==
    \A i, j \in 1..Len(messages) : messages[i].timestamp = messages[j].timestamp => i = j

\* The number of stored rows whose timestamp is greater than that of row i:
\* the offset of row i in the timestamp-descending order.
OffsetOf(i) ==
    Cardinality({ j \in 1..Len(messages) :
                    TextLess(Chars(messages[i].timestamp), Chars(messages[j].timestamp)) })

\* The least n with n * k >= total.
CeilDiv(total, k) == CHOOSE n \in 0..total : n * k >= total /\ \A m \in 0..(n - 1) : m * k < total

\* The places (page, position) at which the caller got message_id `id`.
PlacesOf(id) ==
    { pp \in (1..Len(client.pages)) \X (1..MaxPageSize) :
        pp[2] <= Len(client.pages[pp[1]]) /\ client.pages[pp[1]][pp[2]] = id }

\* C11: on an unchanged store of N rows with pairwise distinct timestamps,
\* read without a filter with a page_size k in 1..100, page p is the rows at
\* offsets (p-1)*k .. p*k-1 of the timestamp-descending order, in that order,
\* no page has more than k rows, a page beyond ceil(N/k) is empty, and once
\* pages 1..ceil(N/k) are read every message is on exactly one page.
C11_PagesPartition ==
    ( /\ NoFilter
      /\ DistinctTimestamps
      /\ client.page_size \in 1..MaxPageSize ) =>
        LET N == Len(messages)
            k == client.page_size
        IN  /\ \A p \in 1..Len(client.pages) :
                  /\ Len(client.pages[p]) <= k
                  /\ p > CeilDiv(N, k) => client.pages[p] = << >>
                  /\ \A i \in 1..N :
                        OffsetOf(i) \in ((p - 1) * k)..(p * k - 1) =>
                            PlacesOf(messages[i].message_id)
                                = { << p, OffsetOf(i) - (p - 1) * k + 1 >> }
            /\ Len(client.pages) >= CeilDiv(N, k) =>
                  \A i \in 1..N : Cardinality(PlacesOf(messages[i].message_id)) = 1

\* Three rows read two by two: a full page, a page of one row, an empty page.
C11_Witness ==
    /\ NoFilter
    /\ DistinctTimestamps
    /\ Len(messages) = 3
    /\ client.page_size = 2
    /\ Len(client.pages) = 3
    /\ Len(client.pages[1]) = 2
    /\ Len(client.pages[2]) = 1
    /\ client.pages[3] = << >>

\* The rows of the store with message_id `id`.
StoredWithId(id) == { i \in 1..Len(messages) : messages[i].message_id = id }

\* The caller got message_id `id` on some page.
Returned(id) == \E p \in 1..Len(client.pages) : \E n \in 1..Len(client.pages[p]) :
                    client.pages[p][n] = id

\* The caller's constraints on a row, taking the fields in `given` as the
\* constraints in force: equal source, timestamp within the closed interval
\* of start_date and end_date as strings.
SatisfiesFilter(row, given) ==
    /\ "source" \in given => row.source = client.source
    /\ "start_date" \in given => ~TextLess(Chars(row.timestamp), Chars(client.start_date))
    /\ "end_date" \in given => ~TextLess(Chars(client.end_date), Chars(row.timestamp))

\* The parameters the caller sent, and those it sent with a non-empty value.
Supplied ==
    { f \in { "source", "start_date", "end_date" } : client[f] # Absent }

SuppliedNonEmpty == { f \in Supplied : client[f] # "" }

\* Returned rows satisfy the constraints `given`, and once enough pages are
\* read to hold all satisfying rows, each of them was returned.
FilterHonoured(given) ==
    LET matching == { i \in 1..Len(messages) : SatisfiesFilter(messages[i], given) } IN
    client.page_size \in 1..MaxPageSize =>
        /\ \A p \in 1..Len(client.pages) : \A n \in 1..Len(client.pages[p]) :
             StoredWithId(client.pages[p][n]) \subseteq matching
        /\ Len(client.pages) * client.page_size >= Cardinality(matching) =>
             \A i \in matching : Returned(messages[i].message_id)

\* C12 as stated: every supplied parameter is a constraint (violated: a
\* parameter supplied as the empty string is ignored).
C12_SuppliedFilter == FilterHonoured(Supplied)

\* C12: get_messages returns only rows that satisfy the conjunction of the
\* constraints supplied with a non-empty value, and every stored row that
\* satisfies them is on some page; a parameter that is not supplied or is the
\* empty string imposes no constraint.
C12_NonEmptyFilter == FilterHonoured(SuppliedNonEmpty)

\* A source and both bounds are given, a row was returned and a stored row was
\* left out.
C12_Witness ==
    /\ SuppliedNonEmpty = { "source", "start_date", "end_date" }
    /\ client.page_size = 1
    /\ Len(client.pages) >= 2
    /\ client.pages[1] # << >>
    /\ client.pages[2] # << >>
    /\ \E i \in 1..Len(messages) : ~Returned(messages[i].message_id)

\* C13: the total of a query is the number of stored rows matching the
\* filter (the constraints given with a non-empty value), whatever page and
\* page_size are requested, pages past the last one included, and the
\* response carries the requested page and page_size.
C13_TotalIsCount ==
    ( query.pc = "done" /\ query.response.status = 200 ) =>
        /\ query.response.total =
             Cardinality({ i \in 1..Len(messages) :
                             SatisfiesFilter(messages[i], SuppliedNonEmpty) })
        /\ query.response.page = Len(client.pages) + 1
        /\ query.response.page_size = client.page_size

\* A page past the last one of a filtered query still reports the total.
C13_Witness ==
    /\ query.pc = "done"
    /\ query.response.status = 200
    /\ SuppliedNonEmpty # {}
    /\ query.response.page = 3
    /\ query.response.messages = << >>
    /\ query.response.total = 2
    /\ Len(messages) = 3

\* C14: a response of GET /messages reports total_pages = ceil(total /
\* page_size), the least number of pages of page_size rows that hold total
\* rows, which is 0 when total is 0.
C14_TotalPagesIsCeiling ==
    ( query.pc = "done" /\ query.response.status = 200 ) =>
        LET r == query.response IN
        /\ r.page_size \in 1..MaxPageSize
        /\ r.total_pages = CeilDiv(r.total, r.page_size)
        /\ r.total_pages * r.page_size >= r.total
        /\ r.total_pages > 0 => (r.total_pages - 1) * r.page_size < r.total
        /\ r.total = 0 => r.total_pages = 0

\* Three rows in pages of two: the division is not exact.
C14_Witness ==
    /\ query.pc = "done"
    /\ query.response.status = 200
    /\ query.response.total = 3
    /\ query.response.page_size = 2
    /\ query.response.total_pages = 2

(* --------------------- claims about health and the store ---------------- *)

\* A health request is answered in this step.
ProbeAnswered(endpoint) ==
    probe.pc = "idle" /\ probe'.pc = "done" /\ probe'.endpoint = endpoint

\* C15: GET /health/ready answers 200 "ready" exactly when, as it is called,
\* the store answers and WEBHOOK_SECRET is set to a non-empty value, and 503
\* otherwise; GET /health/live answers 200 "alive" in every state.
C15_Health ==
    [][ /\ ProbeAnswered("/health/ready") =>
            /\ probe'.response.status \in { 200, 503 }
            /\ probe'.response.status = 200 <=>
                   ( db_available /\ webhook_secret # Unset /\ webhook_secret # "" )
            /\ probe'.response.status = 200 => probe'.response.body = "ready"
        /\ ProbeAnswered("/health/live") =>
            probe'.response = [ status |-> 200, body |-> "alive" ] ]_vars

\* A secret is set and rows are stored, yet the service is not ready: the
\* store did not answer the probe.
C15_Witness ==
    /\ probe.pc = "done"
    /\ probe.endpoint = "/health/ready"
    /\ probe.response = [ status |-> 503, body |-> "Service not ready" ]
    /\ webhook_secret = TestSecret
    /\ Len(messages) > 0

\* C16: the store is append-only.  No step of a webhook request of any
\* outcome, of a query, of a health probe, of a fault or of a restart (init_db
\* run again on the rows stored so far) removes a row or changes a field of a
\* stored row; and init_db on the existing schema of a reachable store ends
\* without an exception and leaves the rows as they are.
C16_AppendOnly ==
    [][ /\ Len(messages') >= Len(messages)
        /\ \A i \in 1..Len(messages) : messages'[i] = messages[i]
        /\ db_available => init_db(db_available, messages)
                               = [ raised |-> "none", rows |-> messages ] ]_vars

\* Two rows are stored and the gauge of the process is 0: the process was
\* started again on a store that held rows; a query has been answered since.
C16_Witness ==
    /\ Len(messages) = 2
    /\ messages_in_db = 0
    /\ req[1].pc = "idle"
    /\ Len(client.pages) = 1
    /\ Len(client.pages[1]) = 2

(* ------------------- claims about the webhook pipeline ------------------ *)

StepOrder ==
    << "idle", "authenticated", "parsed", "validated", "executed", "persisted", "done" >>

StepIndex(pc) == CHOOSE n \in 1..Len(StepOrder) : StepOrder[n] = pc

\* The request carries the digest of its body under the server's secret, its
\* body is JSON text, and the text is an object with the four fields.
Authentic(r) ==
    /\ SecretConfigured
    /\ r.header.present
    /\ r.header.value = HexDigest(webhook_secret, r.body)

JsonText(r) == r.body.utf8 /\ r.body.syntax = "json"

RequiredShape(r) ==
    r.body.top = "object" /\ r.body.has = FieldNames /\ r.body.raw_kind = "object"

\* C18: a request goes through authenticate, parse, validate, insert,
\* classify in that order.  Each step of a request moves it one stage on (the
\* INSERT of a duplicate goes from validated to persisted without a commit) or
\* ends it; a request ended before classification has a failure response and
\* stored nothing in that step; the INSERT runs only for a request that
\* passed authentication, parsing and validation, at most once per request:
\* the store grows by one row only in the step executed -> persisted; only a
\* persisted request is classified (201).
C18_StepsInOrder ==
    [][ /\ \A w \in Workers :
             LET a == req[w].pc
                 b == req'[w].pc
             IN  a # b =>
                   /\ \/ a = "done" /\ b = "idle"
                      \/ a # "done" /\ b = "done"
                      \/ StepIndex(b) = StepIndex(a) + 1
                      \/ a = "validated" /\ b = "persisted"
                   /\ ( b = "done" /\ a # "persisted" ) =>
                        /\ req'[w].response.status \in { 400, 401, 500 }
                        /\ messages' = messages
                   /\ a = "persisted" => req'[w].response.status = 201
                   /\ b \in { "authenticated", "parsed", "validated" } => Authentic(req'[w])
                   /\ b \in { "parsed", "validated" } => JsonText(req'[w])
                   /\ b = "validated" => RequiredShape(req'[w])
                   /\ b \in { "executed", "persisted" } =>
                        a \in { "validated", "executed" } /\ req'[w].body = req[w].body
        /\ messages' # messages =>
             \E w \in Workers :
                 /\ req[w].pc = "executed" /\ req'[w].pc = "persisted"
                 /\ messages' = Append(messages, RowOf(req[w])) ]_vars

\* The second request of the run has been stored after the first: both went
\* through every step.
C18_Witness ==
    /\ Len(messages) = 2
    /\ nreq = 2
    /\ req[1].pc = "persisted"
    /\ req[1].inserted
    /\ messages[2] = RowOf(req[1])

(* ------------------ claims about reading while writing ------------------ *)

\* The number of rows on page `page` of `total` rows read k at a time.
RowsOnPage(total, page, k) ==
    IF total <= (page - 1) * k THEN 0
    ELSE IF total - (page - 1) * k < k THEN total - (page - 1) * k
    ELSE k

\* C19: the list and the total of one response of GET /messages come from one
\* state of the store: read without a filter, the page has exactly the rows
\* that page `page` of `total` rows has.  (Violated: the COUNT statement and
\* the page SELECT are two statements outside a transaction, and an INSERT
\* that commits between them is seen by the second only.)
C19_SingleState ==
    ( query.pc = "done" /\ query.response.status = 200 /\ NoFilter ) =>
        Len(query.response.messages)
            = RowsOnPage(query.response.total, query.response.page,
                         query.response.page_size)

\* C20: a caller who reads pages 1, 2, ... in turn with one page_size and
\* filter gets no message on two different pages, whatever is inserted between
\* the page requests.  (Violated: the page is cut by OFFSET from the order of
\* the moment, so a row inserted with a newer timestamp moves a row already
\* read onto the next page.)
C20_NoRepeatedMessage ==
    \A p, q \in 1..Len(client.pages) :
        \A m \in 1..Len(client.pages[p]) : \A n \in 1..Len(client.pages[q]) :
            client.pages[p][m] = client.pages[q][n] => p = q

(* ------------------- claims about failures and resources ---------------- *)

\* The rows of the store with message_id `id`, after the step.
RowsWithIdAfter(id) == { i \in 1..Len(messages') : messages'[i].message_id = id }

\* C21: a store that fails while insert_message runs (at the INSERT or at the
\* commit) ends the request with 500 "Internal server error" in that step and
\* leaves the rows as they were; however often requests are sent again, no
\* message_id has two rows, and a request answered 201 has exactly one row for
\* its message_id; a store that fails while GET /messages runs ends that
\* request with 500 in that step.
C21_StoreFailure ==
    [][ /\ \A w \in Workers :
             ( /\ req[w].pc \in { "validated", "executed" }
               /\ ~db_available
               /\ req'[w].pc \notin { req[w].pc, "idle" } ) =>
                 /\ req'[w].pc = "done"
                 /\ req'[w].response = HTTPException(500, "Internal server error")
                 /\ messages' = messages
        /\ \A w \in Workers :
             ( req'[w].pc = "done" /\ req'[w].response.status = 201 ) =>
                 Cardinality(RowsWithIdAfter(req'[w].body.message_id)) = 1
        /\ \A i, j \in 1..Len(messages') :
             messages'[i].message_id = messages'[j].message_id => i = j
        /\ ( /\ query.pc \in { "idle", "counted" }
             /\ ~db_available
             /\ query' # query
             /\ query' # IdleQuery ) =>
               /\ query'.pc = "done"
               /\ query'.response.status = 500
               /\ query'.response.messages = << >>
               /\ messages' = messages ]_vars

\* The INSERT of a well-formed request ran at clock 1, its commit failed and
\* the request was answered 500; the store still holds only the earlier row.
C21_Witness ==
    /\ req[1].pc = "done"
    /\ req[1].response = HTTPException(500, "Internal server error")
    /\ RequiredShape(req[1])
    /\ Authentic(req[1])
    /\ req[1].created_at = 1
    /\ ~db_available
    /\ Len(messages) = 1
    /\ messages[1].message_id # req[1].body.message_id

(* --------------------- claims about returned messages ------------------- *)

\* The first 10 characters of a string.
First10(chars) == [ n \in 1..(IF Len(chars) < 10 THEN Len(chars) ELSE 10) |-> chars[n] ]

\* The stored row with message_id `id`.
StoredRow(id) == messages[CHOOSE i \in 1..Len(messages) : messages[i].message_id = id]

\* Every message of the response shows the first 10 characters of its stored
\* timestamp, and that lies between the first 10 characters of those of
\* start_date and end_date that are in `given`.
DisplayedWithin(given) ==
    ( query.pc = "done" /\ query.response.status = 200 ) =>
        \A n \in 1..Len(query.response.messages) :
            LET m == query.response.messages[n] IN
            /\ m.timestamp = First10(Chars(StoredRow(m.message_id).timestamp))
            /\ "start_date" \in given =>
                 ~TextLess(m.timestamp, First10(Chars(client.start_date)))
            /\ "end_date" \in given =>
                 ~TextLess(First10(Chars(client.end_date)), m.timestamp)

\* C23 as claimed: the bounds hold for every start_date and end_date that the
\* caller supplied (violated: end_date supplied as the empty string filters
\* nothing, and no displayed timestamp is <= "").
C23_DisplayedWithinSupplied == DisplayedWithin(Supplied)

\* C23: a response shows the first 10 characters of each stored timestamp;
\* the filters compare the full stored string, so under a start_date or
\* end_date given with a non-empty value the displayed timestamp T has
\* start_date[:10] <= T <= end_date[:10]; a read leaves the store as it is.
C23_DisplayedWithinBounds ==
    [][ messages' = messages /\ DisplayedWithin(SuppliedNonEmpty)' ]_vars

\* A message stored with the timestamp of noon is returned under an end_date
\* of that very instant, shown as the day alone.
C23_Witness ==
    /\ query.pc = "done"
    /\ client.start_date = "2024-01-02"
    /\ client.end_date = "2024-01-02T12:00:00Z"
    /\ \E n \in 1..Len(query.response.messages) :
         /\ query.response.messages[n].message_id = "m4"
         /\ query.response.messages[n].timestamp = Chars("2024-01-02")

\* Documents of the supported shape beyond those that requests carry: the
\* largest value, and two keys.
SmallDocs ==
    { NoDoc,
      [ k \in { "key" } |-> 15 ],
      [ k \in { "key", "other" } |-> IF k = "key" THEN 0 ELSE 15 ] }

C25_GaugeIsRowCount ==
    ( \A w \in Workers : req[w].pc = "idle" ) => messages_in_db = Len(messages)

\* The positions of event `e` in a connection's history.
EventsAt(trace, e) == { n \in 1..Len(trace) : trace[n] = e }

\* A request that opened a connection left it closed: one close, after the
\* commit at the end of the block, or after a rollback and before the
\* exception is raised again.
Released(trace) ==
    trace # << >> =>
        /\ trace[1] = "connect"
        /\ EventsAt(trace, "connect") = { 1 }
        /\ \E n \in 2..Len(trace) :
             /\ EventsAt(trace, "close") = { n }
             /\ \/ trace[n - 1] = "commit" /\ n = Len(trace)
                \/ /\ trace[n - 1] = "rollback"
                   /\ n = Len(trace) - 1
                   /\ trace[Len(trace)] = "raise"

\* C22: every connection opened by get_db_connection is closed on every way
\* out of its block: after the commit on a normal exit, after the rollback on
\* an exception, which is raised again (the IntegrityError of a duplicate
\* included); a request that has been answered, or is not being handled, has
\* no open connection.
C22_ConnectionsClosed ==
    /\ \A w \in Workers :
         /\ req[w].pc \in { "persisted", "done" } => Released(conn.req[w])
         /\ req[w].pc = "idle" => conn.req[w] = << >>
         /\ ( req[w].pc \in { "persisted", "done" } /\ req[w].inserted ) =>
              conn.req[w] = << "connect", "commit", "close" >>
         /\ ( req[w].pc = "done" /\ req[w].response.duplicate ) =>
              conn.req[w] = << "connect", "rollback", "close", "raise" >>
    /\ query.pc = "done" => Released(conn.query)
    /\ query.pc = "idle" => conn.query = << >>
    /\ probe.pc = "done" => Released(conn.probe)
    /\ probe.pc = "idle" => conn.probe = << >>

\* A duplicate has been answered: its INSERT raised IntegrityError and its
\* connection was rolled back and closed; a query failed at its page SELECT
\* and its connection was closed as well.
C22_Witness ==
    /\ req[1].pc = "done"
    /\ req[1].response.duplicate
    /\ conn.req[1] = << "connect", "rollback", "close", "raise" >>
    /\ query.pc = "done"
    /\ query.response.status = 500
    /\ conn.query = << "connect", "rollback", "close", "raise" >>

====
